---- MODULE Spec2Model ----
(***************************************************************************)
(* Model of DLYT (src/src/main.rs): the batch driver process_url_files,    *)
(* the format prober extract_formats and the selectors select_format /     *)
(* select_format_without_probe.                                            *)
(*                                                                         *)
(* Strings are sequences of atoms (chunks of characters).  The atoms are   *)
(* cut so that every pattern the program searches for ("#", "vp9",         *)
(* "av01", "youtube.com", "youtu.be", white space, the URL scheme) is a    *)
(* whole atom; prefix, substring and trim are then computed on the atom    *)
(* sequence exactly as the program computes them on characters.  The atoms *)
(* Nbsp and Soh stand for U+00A0 and U+0001, on which str::trim and        *)
(* Url::parse differ.                                                      *)
(***************************************************************************)
EXTENDS Integers, Sequences, FiniteSets, TLC

VARIABLES args, aria2c_avail, base_use_aria2c, pc, fi, li, urls_exist,
          cur, is_youtube, reply, pr, sel, notices, cmd, status, err,
          no_urls_msg, printed, file_has_url, any_url, file_calls, dl_failed

vars == <<args, aria2c_avail, base_use_aria2c, pc, fi, li, urls_exist,
          cur, is_youtube, reply, pr, sel, notices, cmd, status, err,
          no_urls_msg, printed, file_has_url, any_url, file_calls, dl_failed>>

\* ------------------------------------------------------------ bounds
MaxFiles == 2
MaxLines == 2
MaxFormats == 3
MaxProbeFormats == 2

\* ------------------------------------------------------------ strings
StartsWith(s, p) ==
    Len(s) >= Len(p) /\ SubSeq(s, 1, Len(p)) = p

Contains(s, p) ==
    \E i \in 1..(Len(s) + 1) :
        i + Len(p) - 1 <= Len(s) /\ SubSeq(s, i, i + Len(p) - 1) = p

Nbsp == "<U+00A0>"
Soh == "<U+0001>"

\* the characters str::trim removes (Unicode White_Space)
WhiteSpace == {" ", "\t", Nbsp}
\* the characters Url::parse removes at both ends (C0 controls and space)
C0OrSpace == {" ", "\t", Soh}
\* the characters Url::parse removes everywhere (ASCII tab and newline)
TabOrNewline == {"\t"}
\* the characters Url::parse refuses in the host of an https URL
InvalidDomainAtoms == {" ", Nbsp, Soh}
\* the characters Url::parse refuses in the host of a URL whose scheme is
\* not a special one; U+00A0 and U+0001 are percent-encoded there
InvalidHostAtoms == {" "}

RECURSIVE TrimStart(_, _)
TrimStart(s, W) ==
    IF s # <<>> /\ Head(s) \in W THEN TrimStart(Tail(s), W) ELSE s

RECURSIVE TrimEnd(_, _)
TrimEnd(s, W) ==
    IF s # <<>> /\ s[Len(s)] \in W
    THEN TrimEnd(SubSeq(s, 1, Len(s) - 1), W) ELSE s

\* str::trim
Trim(s) == TrimEnd(TrimStart(s, WhiteSpace), WhiteSpace)

RECURSIVE Remove(_, _)
Remove(s, W) ==
    IF s = <<>> THEN <<>>
    ELSE IF Head(s) \in W THEN Remove(Tail(s), W)
    ELSE <<Head(s)>> \o Remove(Tail(s), W)

\* ------------------------------------------------------------ JSON values
JStr(s) == [t |-> "str", s |-> s, n |-> 0]
JInt(n) == [t |-> "int", s |-> <<>>, n |-> n]
JNull == [t |-> "null", s |-> <<>>, n |-> 0]
JAbsent == [t |-> "absent", s |-> <<>>, n |-> 0]

\* f.get(k).and_then(|v| v.as_str()).unwrap_or("")
as_str_or_empty(v) == IF v.t = "str" THEN v.s ELSE <<>>

\* f.get(k).and_then(|v| v.as_u64()).unwrap_or(0)
as_u64_or_zero(v) == IF v.t = "int" /\ v.n >= 0 THEN v.n ELSE 0

Fmt(id, ext, height, vcodec) ==
    [format_id |-> id, ext |-> ext, height |-> height, vcodec |-> vcodec]

\* the entries of a "formats" array the metadata call may return
F313 == Fmt(JStr(<<"313">>), JStr(<<"webm">>), JInt(1080), JStr(<<"vp9", ".0">>))
F140 == Fmt(JStr(<<"140">>), JStr(<<"m4a">>), JInt(0), JStr(<<"none">>))
F299 == Fmt(JStr(<<"299">>), JStr(<<"mp4">>), JInt(1080), JStr(<<"avc1">>))
F401 == Fmt(JStr(<<"401">>), JStr(<<"mp4">>), JInt(2160), JStr(<<"av01", ".0.12M">>))
F247 == Fmt(JStr(<<"247">>), JStr(<<"webm">>), JInt(720), JStr(<<"vp9">>))
F313NoHeight == Fmt(JStr(<<"313">>), JStr(<<"webm">>), JNull, JStr(<<"vp9">>))
F18 == Fmt(JStr(<<"18">>), JStr(<<"mp4">>), JInt(360), JAbsent)
F248Audio == Fmt(JStr(<<"248">>), JStr(<<"mp4">>), JInt(1080), JStr(<<"none">>))
F302 == Fmt(JStr(<<"302">>), JStr(<<"webm">>), JInt(1080), JStr(<<"vp09.00.40">>))

Descriptors == {F313, F140, F299, F401, F247, F313NoHeight, F18, F248Audio, F302}

\* the entries the replies of a whole run are built from
RunDescriptors == {F313, F140, F299}

SeqsUpTo(S, n) == UNION {[1..k -> S] : k \in 0..n}

\* what `yt-dlp -J url` can come back with
Reply(kind, formats) == [kind |-> kind, formats |-> formats]
NoReply == Reply("none", <<>>)
FailedReplies ==
    {Reply(k, <<>>) : k \in {"spawn_err", "nonzero", "unparsable", "no_formats"}}
RepliesUpTo(D, n) ==
    FailedReplies \cup {Reply("ok", fs) : fs \in SeqsUpTo(D, n)}

\* ------------------------------------------------------------ extract_formats
ThrottledIds == {<<"313">>, <<"248">>, <<"271">>, <<"308">>, <<"315">>}

Acc0 == [has_mp4_1080 |-> FALSE, best_height |-> 0, best_id |-> <<>>,
         best_ext |-> <<>>, best_vcodec |-> <<>>]

\* FormatStep with `>=` for `>`: a tie moves the best to the later entry
FormatStepLatestTie(acc, f) ==
    LET id == as_str_or_empty(f.format_id)
        ext == as_str_or_empty(f.ext)
        height == as_u64_or_zero(f.height)
        vcodec == as_str_or_empty(f.vcodec)
        has == acc.has_mp4_1080
               \/ (ext = <<"mp4">> /\ height <= 1080 /\ height > 0)
    IN  IF vcodec # <<"none">> /\ height >= acc.best_height
        THEN [has_mp4_1080 |-> has, best_height |-> height, best_id |-> id,
              best_ext |-> ext, best_vcodec |-> vcodec]
        ELSE [acc EXCEPT !.has_mp4_1080 = has]

\* one iteration of the `for f in formats` loop
FormatStep(acc, f) ==
    LET id == as_str_or_empty(f.format_id)
        ext == as_str_or_empty(f.ext)
        height == as_u64_or_zero(f.height)
        vcodec == as_str_or_empty(f.vcodec)
        has == acc.has_mp4_1080
               \/ (ext = <<"mp4">> /\ height <= 1080 /\ height > 0)
    IN  IF vcodec # <<"none">> /\ height > acc.best_height
        THEN [has_mp4_1080 |-> has, best_height |-> height, best_id |-> id,
              best_ext |-> ext, best_vcodec |-> vcodec]
        ELSE [acc EXCEPT !.has_mp4_1080 = has]

RECURSIVE FormatLoop(_, _)
FormatLoop(acc, formats) ==
    IF formats = <<>> THEN acc
    ELSE FormatLoop(FormatStep(acc, Head(formats)), Tail(formats))

best_is_throttled(acc) ==
    acc.best_id \in ThrottledIds
    \/ (acc.best_ext = <<"webm">>
        /\ (StartsWith(acc.best_vcodec, <<"vp9">>)
            \/ StartsWith(acc.best_vcodec, <<"av01">>)))

ProbeOk(has, thr) ==
    [ok |-> TRUE, err |-> "", has_mp4_1080 |-> has, best_is_throttled |-> thr]
ProbeErr(e) ==
    [ok |-> FALSE, err |-> e, has_mp4_1080 |-> FALSE, best_is_throttled |-> FALSE]
NoProbe == ProbeErr("not probed")

extract_formats(r) ==
    CASE r.kind = "spawn_err" -> ProbeErr("probe: spawn failed")
      [] r.kind = "nonzero" -> ProbeOk(FALSE, FALSE)
      [] r.kind = "unparsable" -> ProbeErr("probe: invalid json")
      [] r.kind = "no_formats" -> ProbeErr("probe: invalid formats")
      [] OTHER ->
            LET acc == FormatLoop(Acc0, r.formats)
            IN  ProbeOk(acc.has_mp4_1080, best_is_throttled(acc))

\* ------------------------------------------------------------ selectors
Mp4Capped == "bestvideo[ext=mp4][height<=1080]+bestaudio[ext=m4a]/best[ext=mp4]"

Selection(f, w, d) ==
    [ok |-> TRUE, err |-> "", fmt |-> f, warn |-> w, downgraded |-> d]
SelectionErr(e) ==
    [ok |-> FALSE, err |-> e, fmt |-> "", warn |-> FALSE, downgraded |-> FALSE]
NoSelection == SelectionErr("none")

select_format(r, force_best_quality) ==
    LET p == extract_formats(r)
    IN  IF ~p.ok THEN SelectionErr(p.err)
        ELSE IF force_best_quality
        THEN Selection("bestvideo+bestaudio", p.best_is_throttled, FALSE)
        ELSE IF p.best_is_throttled /\ p.has_mp4_1080
        THEN Selection(Mp4Capped, FALSE, TRUE)
        ELSE Selection("bestvideo+bestaudio/best", FALSE, FALSE)

\* select_format_without_probe with the two expressions of select_format
select_format_without_probe_strict(force_best_quality) ==
    IF force_best_quality
    THEN Selection("bestvideo+bestaudio", FALSE, FALSE)
    ELSE Selection(Mp4Capped, FALSE, FALSE)

select_format_without_probe(force_best_quality) ==
    IF force_best_quality
    THEN Selection("bestvideo+bestaudio/best", FALSE, FALSE)
    ELSE Selection(Mp4Capped, FALSE, FALSE)

\* the branch for URLs that are not on the video host
select_format_other(force_best_quality) ==
    IF force_best_quality
    THEN Selection("bestvideo+bestaudio/best", FALSE, FALSE)
    ELSE Selection("best", FALSE, FALSE)

\* ------------------------------------------------------------ list-file lines
LEmpty == <<>>
LBlank == <<" ">>
LComment == <<"#", "videos">>
LWatch == <<"https://", "www.", "youtube.com", "/watch">>
LShort == <<"https://", "youtu.be", "/x">>
LMobile == <<"https://", "m.", "youtube.com", "/watch">>
LOther == <<"https://", "example.com", "/v">>
LLookalike == <<"https://", "not", "youtube.com", "/v">>
LNoScheme == <<"youtube.com", "/watch">>
LNbspOnly == <<Nbsp>>
LUpperHost == <<"https://", "www.", "YouTube.com", "/watch">>
LSohScheme == <<Soh, "https://", "youtu.be", "/x">>
LNbspScheme == <<Nbsp, "https://", "youtu.be", "/x">>
LSpaceHost == <<"https://", " ", "youtu.be", "/x">>
LSlashHost == <<"https://", "/watch">>
LHashHost == <<"https://", "#", "youtu.be">>
LLongScheme == <<"www.", "https://", "youtu.be">>
LSohHost == <<"www.", "https://", Soh, "/x">>

Lines == {LEmpty, LBlank, LComment, LWatch, LShort, LMobile, LOther, LLookalike,
          LNoScheme, LNbspOnly, LUpperHost, LSohScheme, LNbspScheme,
          LSpaceHost, LSlashHost, LHashHost, LLongScheme, LSohHost}
NoLine == <<"?">>

\* the lines that are blank (white space only) or comments
BlankOrCommentLines == {LEmpty, LBlank, LComment, LNbspOnly}

SchemeAtoms == {"https://"}
PathAtoms == {"/watch", "/x", "/v"}

\* a path atom without its leading slash
SegmentOf(a) ==
    CASE a = "/watch" -> "watch"
      [] a = "/x" -> "x"
      [] OTHER -> "v"

\* the host of an https URL is stored in lower case
LowerAtom(a) == IF a = "YouTube.com" THEN "youtube.com" ELSE a

\* the host of a URL with another scheme is stored percent-encoded, one
\* piece per encoded byte; the parser keeps the text as written when the
\* encoder yields a single piece, so a host that is U+0001 alone stays raw
\* (U+00A0 is two bytes, hence two pieces, and is always encoded)
EncodeAtom(h, i) ==
    CASE h[i] = Nbsp -> "%C2%A0"
      [] h[i] = Soh -> IF Len(h) = 1 THEN Soh ELSE "%01"
      [] OTHER -> h[i]

\* an atom of letters, digits and dots: it can be part of a scheme
IsLabel(a) ==
    a \notin WhiteSpace \cup C0OrSpace \cup {"#"} \cup SchemeAtoms \cup PathAtoms

\* the position of the first atom that is not a label, 0 when there is none
FirstNonLabel(u) ==
    LET K == {i \in 1..Len(u) : ~IsLabel(u[i])}
    IN  IF K = {} THEN 0 ELSE CHOOSE i \in K : \A j \in K : i <= j

\* the host characters: up to the first '/', '#' or ':'; the ':' is the one
\* of a further "https://", whose letters still belong to the host
RECURSIVE HostChars(_)
HostChars(s) ==
    IF s = <<>> \/ Head(s) \in PathAtoms \/ Head(s) = "#" THEN <<>>
    ELSE IF Head(s) \in SchemeAtoms THEN <<"https">>
    ELSE <<Head(s)>> \o HostChars(Tail(s))

\* the host of an https URL from its first character on, in lower case
HostRun(s) == [i \in 1..Len(HostChars(s)) |-> LowerAtom(HostChars(s)[i])]

\* the host part of what follows "https://": the slashes before the host
\* are skipped, so a leading path atom gives the first atom of the host
HostOf(s) ==
    IF s # <<>> /\ Head(s) \in PathAtoms
    THEN <<SegmentOf(Head(s))>> \o HostRun(Tail(s))
    ELSE HostRun(s)

\* the host part of what follows "<labels>https://", a scheme that is not
\* special: no slash is skipped, the host is kept as written
OpaqueHostOf(s) ==
    [i \in 1..Len(HostChars(s)) |-> EncodeAtom(HostChars(s), i)]

\* Url::parse(url).ok().and_then(|u| u.host_str()...), None is [some |-> FALSE]
\* The scheme is the run of labels that ends with the first "https://"; a
\* line without it is a relative URL and is refused.
get_domain(url) ==
    LET u == Remove(TrimEnd(TrimStart(url, C0OrSpace), C0OrSpace), TabOrNewline)
        k == FirstNonLabel(u)
        has_scheme == k # 0 /\ u[k] \in SchemeAtoms
        rest == IF has_scheme THEN SubSeq(u, k + 1, Len(u)) ELSE <<>>
        special == k = 1
        raw == HostChars(IF special /\ rest # <<>> /\ Head(rest) \in PathAtoms
                         THEN <<SegmentOf(Head(rest))>> \o Tail(rest)
                         ELSE rest)
        bad == IF special THEN InvalidDomainAtoms ELSE InvalidHostAtoms
        h == IF special THEN HostOf(rest) ELSE OpaqueHostOf(rest)
    IN  IF has_scheme /\ raw # <<>> /\ \A i \in 1..Len(raw) : raw[i] \notin bad
        THEN [some |-> TRUE, v |-> h]
        ELSE [some |-> FALSE, v |-> <<>>]

unwrap_or_default(o) == IF o.some THEN o.v ELSE <<>>

\* IsYoutube comparing the whole host instead of searching in it
IsYoutubeExact(domain) ==
    domain = <<"www.", "youtube.com">> \/ domain = <<"youtu.be">>

IsYoutube(domain) ==
    Contains(domain, <<"youtube.com">>) \/ Contains(domain, <<"youtu.be">>)

\* SkipLine without the comment test
SkipLineBlankOnly(url) == Trim(url) = <<>>

\* url.trim().is_empty() || url.starts_with('#')
SkipLine(url) == Trim(url) = <<>> \/ StartsWith(url, <<"#">>)

\* ------------------------------------------------------------ downloader call
\* UseAria without the exception for the video host
UseAriaAnyHost(force_aria2c, base, youtube) ==
    IF force_aria2c THEN TRUE ELSE base

UseAria(force_aria2c, base, youtube) ==
    IF force_aria2c THEN TRUE
    ELSE IF base THEN ~youtube
    ELSE FALSE

AriaFlags == {"--external-downloader aria2c", "--external-downloader-args -x 4 -k 1M"}
FragmentFlags == {"--concurrent-fragments 10", "--no-part"}
CommonFlags == {"--download-archive", "--user-agent", "--prefer-ffmpeg",
                "--write-description", "--add-metadata", "--write-auto-sub",
                "--embed-subs", "-o"}

Command(url, fmt, aria) ==
    [url |-> url, f |-> fmt,
     flags |-> CommonFlags \cup (IF aria THEN AriaFlags ELSE FragmentFlags)]
NoCommand == [url |-> NoLine, f |-> "", flags |-> {}]

Notices(s, force_aria2c, youtube) ==
    (IF force_aria2c /\ youtube THEN {"aria2c on YouTube"} ELSE {})
    \cup (IF s.warn THEN {"throttled"} ELSE {})
    \cup (IF s.downgraded THEN {"downgraded"} ELSE {})

\* cmd.status(): spawned = FALSE is an io::Error, code is the exit status
DownloadResults ==
    {[spawned |-> FALSE, code |-> 0], [spawned |-> TRUE, code |-> 0],
     [spawned |-> TRUE, code |-> 1]}
NoStatus == [spawned |-> FALSE, code |-> -1]
NoExit == {}

\* AfterDownload treating a non-zero exit like an io::Error
AfterDownloadStrict(st) == IF st.spawned /\ st.code = 0 THEN "line" ELSE "aborted"

\* where the loop goes after `let status = cmd.status()?; println!(...)`
AfterDownload(st) == IF st.spawned THEN "line" ELSE "aborted"

\* ------------------------------------------------------------ the run
Args == [update_ytdlp : BOOLEAN, no_aria2c : BOOLEAN, use_aria2c : BOOLEAN,
         force_best_quality : BOOLEAN, skip_probe : BOOLEAN]

Idle ==
    /\ aria2c_avail = FALSE /\ base_use_aria2c = FALSE
    /\ fi = 0 /\ li = 0 /\ urls_exist = FALSE
    /\ cur = NoLine /\ is_youtube = FALSE
    /\ reply = NoReply /\ pr = NoProbe /\ sel = NoSelection
    /\ notices = {} /\ cmd = NoCommand /\ status = NoStatus /\ err = ""
    /\ no_urls_msg = FALSE /\ printed = NoExit
    /\ file_has_url = FALSE /\ any_url = FALSE /\ file_calls = 0
    /\ dl_failed = FALSE

Init ==
    /\ args \in Args
    /\ pc = "main"
    /\ Idle

\* what main meets before process_url_files: a missing dependency, a
\* `yt-dlp -U` call that cannot be run (lines 319 and 323), an i/o error in
\* create_default_structure, a freshly created structure, or none of these
MainOutcomes == {"deps_missing", "tool_err", "fs_err", "created", "ok"}

\* main up to the call of process_url_files
MainSetup ==
    /\ pc = "main"
    /\ \E env \in MainOutcomes, avail \in BOOLEAN :
        CASE env = "deps_missing" ->
                /\ pc' = "exit"
                /\ UNCHANGED <<aria2c_avail, base_use_aria2c, err>>
          [] env = "tool_err" ->
                /\ pc' = "aborted"
                /\ err' = IF args.update_ytdlp THEN "update: spawn failed"
                          ELSE "version: spawn failed"
                /\ UNCHANGED <<aria2c_avail, base_use_aria2c>>
          [] env = "fs_err" ->
                /\ pc' = "aborted"
                /\ err' = "urls: i/o error"
                /\ aria2c_avail' = avail
                /\ base_use_aria2c' = (~args.no_aria2c /\ avail)
          [] env = "created" ->
                /\ pc' = "exit"
                /\ aria2c_avail' = avail
                /\ base_use_aria2c' = (~args.no_aria2c /\ avail)
                /\ UNCHANGED err
          [] OTHER ->
                /\ pc' = "entry"
                /\ aria2c_avail' = avail
                /\ base_use_aria2c' = (~args.no_aria2c /\ avail)
                /\ UNCHANGED err
    /\ UNCHANGED <<args, fi, li, urls_exist, cur, is_youtube, reply, pr, sel,
                   notices, cmd, status, no_urls_msg, printed,
                   file_has_url, any_url, file_calls, dl_failed>>

\* what the directory iteration meets: a directory, a list file, an i/o
\* error (read_dir, the entry, create_dir_all, File::open) or a file name
\* that is not UTF-8
EntryOutcomes == {"dir", "file", "io_err", "bad_name"}

\* `for entry in fs::read_dir(dir_path)?` up to File::open: the next entry
NextEntry ==
    /\ pc = "entry"
    /\ fi < MaxFiles
    /\ \E env \in EntryOutcomes :
        /\ fi' = fi + 1
        /\ li' = 0
        /\ file_has_url' = FALSE
        /\ file_calls' = 0
        /\ pc' = CASE env = "dir" -> "entry"
                    [] env = "file" -> "line"
                    [] env = "io_err" -> "aborted"
                    [] OTHER -> "panicked"
        /\ err' = CASE env = "io_err" -> "list file: i/o error"
                     [] env = "bad_name" -> "panic: unwrap on None"
                     [] OTHER -> err
    /\ UNCHANGED <<args, aria2c_avail, base_use_aria2c, urls_exist, cur,
                   is_youtube, reply, pr, sel, notices, cmd, status,
                   no_urls_msg, printed, any_url, dl_failed>>

\* the directory has no more entries: Ok(urls_exist), then main's last lines
Finish ==
    /\ pc = "entry"
    /\ pc' = "done"
    /\ no_urls_msg' = ~urls_exist
    /\ UNCHANGED <<args, aria2c_avail, base_use_aria2c, fi, li, urls_exist,
                   cur, is_youtube, reply, pr, sel, notices, cmd, status, err,
                   printed, file_has_url, any_url, file_calls, dl_failed>>

\* `for line in reader.lines()`: the line filter, the domain test, and for a
\* URL that is not probed the selection and the notices
ReadLine ==
    /\ pc = "line"
    /\ li < MaxLines
    /\ \E url \in Lines :
        /\ li' = li + 1
        /\ file_has_url' = (file_has_url \/ url \notin BlankOrCommentLines)
        /\ any_url' = (any_url \/ url \notin BlankOrCommentLines)
        /\ UNCHANGED err
        /\ IF SkipLine(url)
           THEN UNCHANGED <<pc, urls_exist, cur, is_youtube, reply, pr, sel,
                            notices, cmd, status, printed>>
           ELSE LET youtube == IsYoutube(unwrap_or_default(get_domain(url)))
                IN  /\ urls_exist' = TRUE
                    /\ cur' = url
                    /\ is_youtube' = youtube
                    /\ reply' = NoReply
                    /\ pr' = NoProbe
                    /\ cmd' = NoCommand
                    /\ status' = NoStatus
                    /\ printed' = NoExit
                    /\ IF youtube /\ ~args.skip_probe
                       THEN /\ pc' = "probe"
                            /\ sel' = NoSelection
                            /\ notices' = {}
                       ELSE LET s == IF youtube
                                     THEN select_format_without_probe(args.force_best_quality)
                                     ELSE select_format_other(args.force_best_quality)
                            IN  /\ pc' = "download"
                                /\ sel' = s
                                /\ notices' = Notices(s, args.use_aria2c, youtube)
    /\ UNCHANGED <<args, aria2c_avail, base_use_aria2c, fi, no_urls_msg,
                   file_calls, dl_failed>>

\* `let url = line?` on a line that cannot be read (bytes that are not UTF-8)
ReadLineFails ==
    /\ pc = "line"
    /\ li < MaxLines
    /\ pc' = "aborted"
    /\ err' = "line: invalid data"
    /\ UNCHANGED <<args, aria2c_avail, base_use_aria2c, fi, li, urls_exist,
                   cur, is_youtube, reply, pr, sel, notices, cmd, status,
                   no_urls_msg, printed, file_has_url, any_url, file_calls,
                   dl_failed>>

\* the reader is at the end of the file: the locals of the line loop are
\* dropped
EndOfFile ==
    /\ pc = "line"
    /\ pc' = "entry"
    /\ cur' = NoLine /\ is_youtube' = FALSE
    /\ pr' = NoProbe /\ sel' = NoSelection
    /\ notices' = {} /\ cmd' = NoCommand /\ status' = NoStatus
    /\ printed' = NoExit
    /\ UNCHANGED <<args, aria2c_avail, base_use_aria2c, fi, li, urls_exist,
                   reply, err, no_urls_msg, file_has_url, any_url, file_calls,
                   dl_failed>>

\* select_format(&url, force_best_quality)? with the metadata call it makes,
\* then the notices
Probe ==
    /\ pc = "probe"
    /\ \E r \in RepliesUpTo(RunDescriptors, MaxProbeFormats) :
        LET s == select_format(r, args.force_best_quality)
        IN  /\ reply' = r
            /\ pr' = extract_formats(r)
            /\ sel' = s
            /\ IF s.ok
               THEN /\ pc' = "download"
                    /\ notices' = Notices(s, args.use_aria2c, is_youtube)
                    /\ UNCHANGED err
               ELSE /\ pc' = "aborted"
                    /\ err' = s.err
                    /\ UNCHANGED notices
    /\ file_calls' = file_calls + 1
    /\ UNCHANGED <<args, aria2c_avail, base_use_aria2c, fi, li, urls_exist,
                   cur, is_youtube, cmd, status, no_urls_msg, printed,
                   file_has_url, any_url, dl_failed>>

\* the downloader command and its exit status; the reply of the metadata
\* call was dropped when select_format returned
Download ==
    /\ pc = "download"
    /\ reply' = NoReply
    /\ cmd' = Command(cur, sel.fmt, UseAria(args.use_aria2c, base_use_aria2c, is_youtube))
    /\ \E st \in DownloadResults :
        /\ status' = st
        /\ pc' = AfterDownload(st)
        /\ err' = IF st.spawned THEN err ELSE "download: spawn failed"
        /\ printed' = IF st.spawned THEN {st.code} ELSE printed
        /\ dl_failed' = (dl_failed \/ (st.spawned /\ st.code # 0))
    /\ file_calls' = file_calls + 1
    /\ UNCHANGED <<args, aria2c_avail, base_use_aria2c, fi, li, urls_exist,
                   cur, is_youtube, pr, sel, notices, no_urls_msg,
                   file_has_url, any_url>>

Next ==
    \/ MainSetup
    \/ NextEntry
    \/ Finish
    \/ ReadLine
    \/ ReadLineFails
    \/ EndOfFile
    \/ Probe
    \/ Download

Spec == Init /\ [][Next]_vars

\* ------------------------------------------------------------ the selector alone
\* a recognized URL, a reply of the metadata call and the quality flag
InitSelect ==
    /\ args \in {a \in Args : ~a.update_ytdlp /\ ~a.no_aria2c /\ ~a.use_aria2c
                           /\ ~a.skip_probe}
    /\ pc = "select"
    /\ Idle

SelectStep ==
    /\ pc = "select"
    /\ \E r \in RepliesUpTo(Descriptors, MaxFormats) :
        /\ reply' = r
        /\ pr' = extract_formats(r)
        /\ sel' = select_format(r, args.force_best_quality)
    /\ pc' = "selected"
    /\ UNCHANGED <<args, aria2c_avail, base_use_aria2c, fi, li, urls_exist,
                   cur, is_youtube, notices, cmd, status, err, no_urls_msg,
                   printed, file_has_url, any_url, file_calls, dl_failed>>

NextSelect == SelectStep

SpecSelect == InitSelect /\ [][NextSelect]_vars

TypeOK ==
    /\ args \in Args
    /\ pc \in {"main", "exit", "entry", "line", "probe", "download", "aborted",
               "panicked", "done", "select", "selected"}
    /\ fi \in 0..MaxFiles /\ li \in 0..MaxLines
    /\ cur \in Lines \cup {NoLine}

\* ------------------------------------------------------------ properties
Force == args.force_best_quality

\* the descriptor attributes as the data model names them
HeightOf(f) == as_u64_or_zero(f.height)
IsVideo(f) == as_str_or_empty(f.vcodec) # <<"none">>
MatchesThrottleRule(f) ==
    as_str_or_empty(f.format_id) \in {<<"313">>, <<"248">>, <<"271">>, <<"308">>, <<"315">>}
    \/ (as_str_or_empty(f.ext) = <<"webm">>
        /\ \E c \in {<<"vp9">>, <<"av01">>} :
              StartsWith(as_str_or_empty(f.vcodec), c))
ListsMp4Under1080(fs) ==
    \E i \in 1..Len(fs) :
        as_str_or_empty(fs[i].ext) = <<"mp4">> /\ HeightOf(fs[i]) > 0
        /\ HeightOf(fs[i]) <= 1080

\* index of the earliest-listed descriptor of maximum height among the
\* descriptors with a video codec, 0 when the list has none
BestIndex(fs) ==
    LET V == {i \in 1..Len(fs) : IsVideo(fs[i])}
        M == {i \in V : \A j \in V : HeightOf(fs[j]) <= HeightOf(fs[i])}
    IN  IF V = {} THEN 0 ELSE CHOOSE i \in M : \A j \in M : i <= j
BestThrottled(fs) ==
    BestIndex(fs) # 0 /\ MatchesThrottleRule(fs[BestIndex(fs)])

VideoHostLines == {LWatch, LShort, LUpperHost, LSohScheme, LLongScheme}
ProbeFailures == {"nonzero", "unparsable", "no_formats"}
Downloading == pc = "download"
Invoked == cmd # NoCommand
PassesAria == AriaFlags \subseteq cmd.flags
PassesFragments == FragmentFlags \subseteq cmd.flags

\* C1: a failed metadata call (non-zero exit, unparsable output, no "formats"
\* field) for a recognized URL never ends the run: the run goes on to the
\* downloader call for that URL.
C1_ProbeFailureNeverFatal ==
    (reply.kind \in ProbeFailures /\ cur \in VideoHostLines /\ ~args.skip_probe)
        => pc = "download"

\* C2: after a metadata call that exits non-zero, without force-best-quality,
\* the selection is the one of a skipped probe: the mp4-capped expression,
\* no warning, no downgrade.
C2_NonZeroProbeIsAbsentRow ==
    (Downloading /\ reply.kind = "nonzero" /\ cur \in VideoHostLines
     /\ ~args.skip_probe /\ ~Force)
        => sel = Selection(Mp4Capped, FALSE, FALSE)

\* C3: a probe with bestIsThrottled and no mp4 under 1080, without
\* force-best-quality, selects "bestvideo+bestaudio/best" and raises the
\* throttle warning, which is printed before the download.
C3_ThrottledNoMp4Warns ==
    (Downloading /\ reply.kind = "ok" /\ ~Force
     /\ pr.best_is_throttled /\ ~pr.has_mp4_1080)
        => /\ sel = Selection("bestvideo+bestaudio/best", TRUE, FALSE)
           /\ "throttled" \in notices

\* C4: without force-best-quality, when the best video descriptor is
\* classified throttled and the list holds an mp4 descriptor with
\* 0 < height <= 1080 (also one of the height of the best, listed after it),
\* the selection is the mp4-capped expression, no warning, downgraded.
C4_ThrottledWithMp4Downgrades ==
    (pc = "selected" /\ reply.kind = "ok" /\ ~Force
     /\ ListsMp4Under1080(reply.formats)
     /\ (pr.best_is_throttled
         \/ (BestThrottled(reply.formats)
             /\ HeightOf(reply.formats[BestIndex(reply.formats)]) > 0)))
        => sel = Selection(Mp4Capped, FALSE, TRUE)

C4_Witness ==
    /\ pc = "selected" /\ ~Force
    /\ reply = Reply("ok", <<F313, F140, F299>>)
    /\ sel.downgraded

\* C5: for every format list of a successful probe, bestIsThrottled holds iff
\* the earliest-listed descriptor of maximum height among the descriptors
\* with a video codec matches the throttle rule, also when the video
\* descriptors have height 0 or no height.
C5_BestIsThrottledIff ==
    (pc = "selected" /\ reply.kind = "ok")
        => (pr.best_is_throttled <=> BestThrottled(reply.formats))

\* C6: with force-best-quality the expression passed to the downloader is
\* "bestvideo+bestaudio" for a probed URL and "bestvideo+bestaudio/best" for
\* one that was not probed, downgraded is false, and warnThrottled is
\* bestIsThrottled when probed and false otherwise.
C6_ForceBestQuality ==
    (Invoked /\ Force)
        => /\ cmd.f = IF pr.ok THEN "bestvideo+bestaudio"
                      ELSE "bestvideo+bestaudio/best"
           /\ ~sel.downgraded /\ "downgraded" \notin notices
           /\ sel.warn = (pr.ok /\ pr.best_is_throttled)
           /\ pr.ok = (is_youtube /\ ~args.skip_probe)

C6_Witness ==
    /\ Invoked /\ Force /\ pr = ProbeOk(TRUE, TRUE) /\ sel.warn
    /\ cmd.f = "bestvideo+bestaudio"

\* C7 as claimed: only the hosts www.youtube.com and youtu.be take the
\* probe/throttle-aware path; every other line is never probed, gets
\* "bestvideo+bestaudio/best" or "best", and prints no throttle or downgrade
\* notice.
C7_OnlyExactHostsProbed ==
    pc \in {"probe", "download"}
        => /\ cur \in VideoHostLines => is_youtube
           /\ cur \notin VideoHostLines
                => /\ pc # "probe" /\ ~pr.ok
                   /\ sel = select_format_other(Force)
                   /\ notices \cap {"throttled", "downgraded"} = {}

\* C7 amended: a URL whose host contains "youtube.com" or "youtu.be"
\* (www.youtube.com, youtu.be, and also m.youtube.com and notyoutube.com)
\* takes the
\* probe/throttle-aware path; a URL whose host contains neither, and a line
\* that does not parse as a URL, is never probed, gets
\* "bestvideo+bestaudio/best" or "best", and prints no throttle or downgrade
\* notice.
C7_SubstringHostsProbed ==
    pc \in {"probe", "download"}
        => /\ cur \in {LWatch, LShort, LUpperHost, LSohScheme, LLongScheme,
                       LMobile, LLookalike}
                => /\ is_youtube
                   /\ pc = "download" => (pr.ok \/ args.skip_probe)
                   /\ (pc = "download" /\ args.skip_probe)
                        => sel = select_format_without_probe(Force)
           /\ cur \in {LOther, LSlashHost, LNoScheme, LNbspScheme, LSpaceHost,
                       LHashHost, LSohHost}
                => /\ ~is_youtube /\ pc # "probe" /\ ~pr.ok
                   /\ sel = Selection(IF Force THEN "bestvideo+bestaudio/best"
                                      ELSE "best", FALSE, FALSE)
                   /\ notices \cap {"throttled", "downgraded"} = {}

C7_Witness ==
    /\ Downloading /\ cur = LNoScheme /\ sel.fmt = "best" /\ ~args.skip_probe

\* C8: a downloader call that exits non-zero does not end the run: its exit
\* status is printed and the loop continues with the next line of the same
\* list file.
C8_DownloadFailureContinues ==
    [][(pc = "download" /\ status'.spawned /\ status'.code # 0)
        => /\ pc' = "line" /\ fi' = fi /\ li' = li
           /\ printed' = {status'.code}
           /\ err' = err]_vars

C8_Witness ==
    /\ dl_failed /\ Invoked /\ status = [spawned |-> TRUE, code |-> 0]
    /\ printed = {0} /\ pc = "line"

\* C9: a list file with only comment and blank lines causes no probe and no
\* downloader call, and when process_url_files has returned, the "no URLs
\* found" message is printed iff no list file held a URL line.
C9_NoUrlsMessage ==
    /\ (pc \in {"line", "probe", "download", "entry"} /\ ~file_has_url)
            => file_calls = 0
    /\ pc = "done" => (no_urls_msg <=> ~any_url)
    /\ pc # "done" => ~no_urls_msg

C9_Witness ==
    /\ pc = "done" /\ any_url /\ dl_failed /\ ~no_urls_msg
    /\ ~file_has_url /\ li > 0 /\ file_calls = 0

\* C10: the accelerator flags are passed for a URL of the video host only
\* when --use-aria2c forces them, for any other URL exactly when aria2c is
\* available and not disabled, or forced; every call passes exactly one of
\* the two flag sets, whatever the warning and downgrade flags are.
C10_AcceleratorFlags ==
    Invoked
        => /\ PassesAria # PassesFragments
           /\ PassesAria => cmd.flags \cap FragmentFlags = {}
           /\ PassesFragments => cmd.flags \cap AriaFlags = {}
           /\ is_youtube => (PassesAria <=> args.use_aria2c)
           /\ ~is_youtube
                => (PassesAria <=> ((aria2c_avail /\ ~args.no_aria2c)
                                    \/ args.use_aria2c))

C10_Witness ==
    /\ Invoked /\ is_youtube /\ aria2c_avail /\ ~args.no_aria2c
    /\ ~args.use_aria2c /\ PassesFragments /\ sel.warn

====
